---- MODULE Spec2Model ----
(***************************************************************************)
(* The three reconcilers of the backup operator (BackupPolicy, Backup,     *)
(* Restore) over an abstract resource store.  One action per Reconcile     *)
(* call.  The API calls of a Reconcile that fail are an input of the       *)
(* action (the set F of failing calls); a freshly created child may lag    *)
(* behind in the informer cache the reconcilers read from.  The            *)
(* environment creates Restores, lets Jobs succeed or fail, removes Jobs   *)
(* and Backups, and advances the clock.                                    *)
(***************************************************************************)
EXTENDS Integers, Sequences, FiniteSets, TLC

\* ---------------------------------------------------------------- bounds
\* The clock runs over 0..MaxTime seconds.
MaxTime == 1
\* At most MaxFaults disturbances in a run: failed API calls, children that
\* lag behind in the cache, objects removed by the environment.
MaxFaults == 1

\* ------------------------------------------------------------- constants
\* RequeueAfter: 10 * time.Second
PollDelay == 10

NS == {"ns1", "ns2"}
PolicyKey == <<"ns1", "p1">>
RestoreKeys == {<<"ns1", "r1">>}
ValidSchedule == "*/2 * * * * *"
Schedules == {ValidSchedule, "every-now-and-then"}
Times == 0..MaxTime

\* A *metav1.Time: <<>> is nil, <<t>> is set.
NilTime == <<>>

\* BackupPhase / RestorePhase; "" is the unset phase of a new object.
PhasePending == "Pending"
PhaseRunning == "Running"
PhaseCompleted == "Completed"
PhaseFailed == "Failed"

\* time.Now().Format("20060102-150405"): the second, in digits.
FormatTime(t) == ToString(t)

\* backupPolicy.Name + "-" + time.Now().Format(...)
BackupNameFor(policyName, t) == policyName \o "-" \o FormatTime(t)

\* jobName := owner.Name + "-job"
JobName(ownerName) == ownerName \o "-job"

BackupNames == {BackupNameFor(PolicyKey[2], t) : t \in Times}
BackupKeys == {PolicyKey[1]} \X BackupNames

Condition(type, status, reason) ==
  [type |-> type, status |-> status, reason |-> reason]

VARIABLES
  now,        \* the wall clock, in seconds
  policies,   \* BackupPolicy objects, by <<namespace, name>>
  backups,    \* Backup objects, by <<namespace, name>>
  restores,   \* Restore objects, by <<namespace, name>>
  jobs,       \* batch Jobs, by <<namespace, name>>
  unsynced,   \* children created but not yet in the informer cache
  last,       \* what the Reconcile call of this step saw, did and returned
  created,    \* per living owner, how many Jobs its reconciler has created
  faults,     \* how many disturbances the run has had
  queue       \* the objects a Reconcile call is due for, where that is tracked

vars == <<now, policies, backups, restores, jobs, unsynced, last, created, faults,
          queue>>

Exists(store, k) == k \in DOMAIN store
Put(store, k, obj) == [x \in DOMAIN store \cup {k} |-> IF x = k THEN obj ELSE store[x]]
Remove(store, k) == [x \in DOMAIN store \ {k} |-> store[x]]

\* A read through the informer cache sees a child only once it is synced.
Visible(kind, store, k) == Exists(store, k) /\ <<kind, k>> \notin unsynced

Count(owner) == IF owner \in DOMAIN created THEN created[owner] ELSE 0

\* ctrl.Result{} / ctrl.Result{RequeueAfter: ...}, the returned error, and
\* what the call read and wrote.
NoLast ==
  [op |-> "none", key |-> <<"", "">>, err |-> "", requeueAfter |-> 0,
   prePhase |-> "", backupSeen |-> "", jobSeen |-> "", wrote |-> FALSE,
   createErr |-> "", writeErr |-> FALSE,
   createdJob |-> FALSE, createdBackup |-> FALSE, at |-> 0]

\* A Backup without the owner reference to its policy.
NewBackupUnowned(policyName, target) ==
  [policyRef |-> policyName, target |-> target, owner |-> "",
   phase |-> "", startTime |-> NilTime, completionTime |-> NilTime,
   backupLocation |-> "", conditions |-> <<>>]

NewBackup(policyName, target) ==
  [policyRef |-> policyName, target |-> target, owner |-> policyName,
   phase |-> "", startTime |-> NilTime, completionTime |-> NilTime,
   backupLocation |-> "", conditions |-> <<>>]

NewJob(kind, ownerName) ==
  [succeeded |-> 0, failed |-> 0, ownerKind |-> kind, owner |-> ownerName]

NewPolicy(schedule) ==
  [schedule |-> schedule, target |-> "pvc-a", keepLast |-> 1,
   lastBackupTime |-> NilTime,
   nextScheduledBackup |-> NilTime, conditions |-> <<>>]

InitStore ==
  /\ now = 0
  /\ \E s \in Schedules : policies = (PolicyKey :> NewPolicy(s))
  /\ backups = <<>>
  /\ restores = <<>>
  /\ jobs = <<>>
  /\ unsynced = {}
  /\ last = NoLast
  /\ created = <<>>
  /\ faults = 0

\* The reconcilers may run at any time; no queue is kept.
Init == InitStore /\ queue = {}

\* The outcome of a Reconcile call: the store after it, whether it made a
\* child, what it returned, and which API calls it came to make.
Out(bs, rs, js, made, l, called) ==
  [policies |-> policies, backups |-> bs, restores |-> rs, jobs |-> js,
   made |-> made, last |-> l, called |-> called]

JobKey(k) == <<k[1], JobName(k[2])>>

\* What a Reconcile returns for an object that is gone: nothing, no error.
Gone(op, k) == [NoLast EXCEPT !.op = op, !.key = k, !.at = now, !.prePhase = "absent"]

\* What r.Create answers: the call fails, or the name is taken, or it goes
\* through.
CreateError(exists, failing) ==
  IF failing THEN "error" ELSE IF exists THEN "AlreadyExists" ELSE ""

\* A check that takes no error for AlreadyExists.
IsAlreadyExistsNever(e) == FALSE

\* apierrors.IsAlreadyExists(err)
IsAlreadyExists(e) == e = "AlreadyExists"

\* A start whose failed write goes unnoticed.
StartWriteFailsUnseen(starting, F) == FALSE

\* if err := r.Status().Update(ctx, &obj); err != nil { return ..., err }
StartWriteFails(starting, F) == starting /\ "updStart" \in F

\* ------------------------------------------------- Backup reconciler
\* A terminal check that knows Completed only.
IsTerminalCompletedOnly(phase) == phase = PhaseCompleted

\* backup.Status.Phase == Completed || backup.Status.Phase == Failed
IsTerminal(phase) == phase = PhaseCompleted \/ phase = PhaseFailed

\* A start that forgets the start time.
StartBackupNoStamp(b, t) == [b EXCEPT !.phase = PhaseRunning]

\* if backup.Status.Phase == "" { Phase = Running; StartTime = &now }
StartBackup(b, t) == [b EXCEPT !.phase = PhaseRunning, !.startTime = <<t>>]

\* A reading of the Job that looks at the failures first.
JobOutcomeFailureFirst(job) ==
  IF job.failed > 0 THEN "failed"
  ELSE IF job.succeeded > 0 THEN "succeeded"
  ELSE "running"

\* existingJob.Status.Succeeded > 0, else existingJob.Status.Failed > 0
JobOutcome(job) ==
  IF job.succeeded > 0 THEN "succeeded"
  ELSE IF job.failed > 0 THEN "failed"
  ELSE "running"

\* A completion that also rewrites the target of the Backup.
CompleteBackupRetargeted(b, name, t) ==
  [b EXCEPT !.phase = PhaseCompleted, !.completionTime = <<t>>,
            !.backupLocation = "/backups/" \o name \o ".tar.gz",
            !.target = ""]

CompleteBackup(b, name, t) ==
  [b EXCEPT !.phase = PhaseCompleted, !.completionTime = <<t>>,
            !.backupLocation = "/backups/" \o name \o ".tar.gz"]

FailBackup(b, t) == [b EXCEPT !.phase = PhaseFailed, !.completionTime = <<t>>]

\* r.Create failed with something other than AlreadyExists
FailBackupOnCreate(b) == [b EXCEPT !.phase = PhaseFailed]

\* BackupReconciler.Reconcile on the Backup k, which exists; the calls in F
\* fail: "updStart" and "updEnd" are the r.Status().Update of the start and
\* of the end, "getJob" the read of the Job, "create" its creation.
BackupStep(k, F) ==
  LET b0 == IF Exists(backups, k) THEN backups[k] ELSE NewBackup("", "")
      jk == JobKey(k)
      L0 == [NoLast EXCEPT !.op = "backup", !.key = k, !.at = now,
                           !.prePhase = b0.phase]
  IN
  IF ~Exists(backups, k)
  THEN \* r.Get answers NotFound: client.IgnoreNotFound
       Out(backups, restores, jobs, FALSE, Gone("backup", k), {})
  ELSE IF IsTerminal(b0.phase) THEN Out(backups, restores, jobs, FALSE, L0, {})
  ELSE
    LET starting == b0.phase = ""
        b1 == IF starting THEN StartBackup(b0, now) ELSE b0
        C1 == IF starting THEN {"updStart"} ELSE {}
    IN
    IF StartWriteFails(starting, F)
    THEN Out(backups, restores, jobs, FALSE, [L0 EXCEPT !.err = "error", !.writeErr = TRUE], C1)
    ELSE
      LET written == starting /\ "updStart" \notin F
          bs1 == IF written THEN Put(backups, k, b1) ELSE backups
          L1 == [L0 EXCEPT !.wrote = written]
          C2 == C1 \cup {"getJob"}
      IN
      IF "getJob" \in F
      THEN Out(bs1, restores, jobs, FALSE,
               [L1 EXCEPT !.err = "error", !.jobSeen = "error"], C2)
      ELSE IF Visible("Job", jobs, jk)
      THEN
        LET seen == JobOutcome(jobs[jk])
            L2 == [L1 EXCEPT !.jobSeen = seen]
            b2 == IF seen = "succeeded" THEN CompleteBackup(b1, k[2], now)
                  ELSE FailBackup(b1, now)
        IN
        IF seen = "running"
        THEN Out(bs1, restores, jobs, FALSE,
                 [L2 EXCEPT !.requeueAfter = PollDelay], C2)
        ELSE IF "updEnd" \notin F
        THEN Out(Put(bs1, k, b2), restores, jobs, FALSE,
                 [L2 EXCEPT !.wrote = TRUE], C2 \cup {"updEnd"})
        ELSE Out(bs1, restores, jobs, FALSE,
                 [L2 EXCEPT !.err = "error", !.writeErr = TRUE], C2 \cup {"updEnd"})
      ELSE
        LET e == CreateError(Exists(jobs, jk), "create" \in F)
            L2 == [L1 EXCEPT !.jobSeen = "notfound", !.createErr = e]
            C3 == C2 \cup {"create"}
        IN
        IF e # "" /\ ~IsAlreadyExists(e)
        THEN \* the result of this r.Status().Update is not looked at
             Out(IF "updEnd" \notin F THEN Put(bs1, k, FailBackupOnCreate(b1))
                                      ELSE bs1,
                 restores, jobs, FALSE,
                 [L2 EXCEPT !.err = e,
                            !.wrote = (L1.wrote \/ "updEnd" \notin F),
                            !.writeErr = ("updEnd" \in F)],
                 C3 \cup {"updEnd"})
        ELSE IF e # ""
        THEN \* AlreadyExists is ignored
             Out(bs1, restores, jobs, FALSE,
                 [L2 EXCEPT !.requeueAfter = PollDelay], C3)
        ELSE Out(bs1, restores, Put(jobs, jk, NewJob("Backup", k[2])), TRUE,
                 [L2 EXCEPT !.requeueAfter = PollDelay, !.createdJob = TRUE],
                 C3 \cup {"lag"})

\* What a Reconcile action does with the outcome of its step: only the calls
\* it made can fail, each failure is a disturbance, and a child it made is
\* out of the cache's sight while it lags.
Apply(kind, k, child, out, F) ==
  /\ F \subseteq out.called
  /\ faults' = faults + Cardinality(F)
  /\ policies' = out.policies
  /\ backups' = out.backups
  /\ restores' = out.restores
  /\ jobs' = out.jobs
  /\ last' = out.last
  /\ unsynced' = IF out.made /\ "lag" \in F THEN unsynced \cup {child} ELSE unsynced
  /\ created' = IF out.made /\ kind # "BackupPolicy"
                THEN Put(created, <<kind, k>>, Count(<<kind, k>>) + 1)
                ELSE created
  /\ UNCHANGED now

BackupCalls == {"updStart", "getJob", "create", "updEnd", "lag"}

\* The sets of calls that may still fail within the run's disturbances.
Failing(calls) == {F \in SUBSET calls : faults + Cardinality(F) <= MaxFaults}

BackupReconcile ==
  \E k \in BackupKeys, F \in Failing(BackupCalls) :
    \E out \in {BackupStep(k, F)} :
      Apply("Backup", k, <<"Job", JobKey(k)>>, out, F) /\ UNCHANGED queue

\* ------------------------------------------------ Restore reconciler
NewRestore(backupName, targetNamespace) ==
  [backupName |-> backupName, targetPVC |-> "pvc-r",
   targetNamespace |-> targetNamespace,
   phase |-> "", startTime |-> NilTime, completionTime |-> NilTime,
   restoredDataSize |-> "", conditions |-> <<>>]

\* A lookup that never leaves the Restore's own namespace.
ResolveOwnNamespace(k, r) == k[1]

\* targetNamespace := restore.Spec.TargetNamespace, or restore.Namespace
ResolveNamespace(k, r) ==
  IF r.targetNamespace = "" THEN k[1] ELSE r.targetNamespace

\* A validation that turns away Failed Backups only.
BackupNotReadyOnlyFailed(b) == b.phase = PhaseFailed

\* backup.Status.Phase != BackupPhaseCompleted
BackupNotReady(b) == b.phase # PhaseCompleted

\* A rejection that records the condition and forgets the phase.
RejectRestoreKeepPhase(r, reason) ==
  [r EXCEPT !.conditions = <<Condition("Ready", "False", reason)>>]

RejectRestore(r, reason) ==
  [r EXCEPT !.phase = PhaseFailed,
            !.conditions = <<Condition("Ready", "False", reason)>>]

\* A start that forgets the start time.
StartRestoreNoStamp(r, t) ==
  [r EXCEPT !.phase = PhaseRunning,
            !.conditions = <<Condition("Progressing", "True", "RestoreStarted")>>]

StartRestore(r, t) ==
  [r EXCEPT !.phase = PhaseRunning, !.startTime = <<t>>,
            !.conditions = <<Condition("Progressing", "True", "RestoreStarted")>>]

CompleteRestore(r, t) ==
  [r EXCEPT !.phase = PhaseCompleted, !.completionTime = <<t>>,
            !.conditions = <<Condition("Ready", "True", "RestoreCompleted")>>]

FailRestore(r, t) ==
  [r EXCEPT !.phase = PhaseFailed, !.completionTime = <<t>>,
            !.conditions = <<Condition("Ready", "False", "RestoreFailed")>>]

FailRestoreOnCreate(r) == [r EXCEPT !.phase = PhaseFailed]

\* RestoreReconciler.Reconcile on the Restore k, which exists; the calls in F
\* fail: "getBackup" is the read of the referenced Backup, "updGate" the
\* r.Status().Update of the validation, the others as for a Backup.
RestoreStep(k, F) ==
  LET r0 == IF Exists(restores, k) THEN restores[k] ELSE NewRestore("", "")
      jk == JobKey(k)
      bk == <<ResolveNamespace(k, r0), r0.backupName>>
      L0 == [NoLast EXCEPT !.op = "restore", !.key = k, !.at = now,
                           !.prePhase = r0.phase]
      CG == {"getBackup", "updGate"}
  IN
  IF ~Exists(restores, k)
  THEN Out(backups, restores, jobs, FALSE, Gone("restore", k), {})
  ELSE IF IsTerminal(r0.phase) THEN Out(backups, restores, jobs, FALSE, L0, {})
  ELSE IF "getBackup" \in F \/ ~Visible("Backup", backups, bk)
  THEN \* every error of r.Get is taken for "not found", and returned
       LET e == IF "getBackup" \in F THEN "error" ELSE "notfound" IN
       Out(backups,
           IF "updGate" \notin F
           THEN Put(restores, k, RejectRestore(r0, "BackupNotFound"))
           ELSE restores,
           jobs, FALSE,
           [L0 EXCEPT !.err = e, !.backupSeen = e, !.wrote = ("updGate" \notin F),
                      !.writeErr = ("updGate" \in F)],
           CG)
  ELSE IF BackupNotReady(backups[bk])
  THEN Out(backups,
           IF "updGate" \notin F
           THEN Put(restores, k, RejectRestore(r0, "BackupNotReady"))
           ELSE restores,
           jobs, FALSE,
           [L0 EXCEPT !.backupSeen = "notready", !.wrote = ("updGate" \notin F),
                      !.writeErr = ("updGate" \in F)],
           CG)
  ELSE
    LET starting == r0.phase = ""
        r1 == IF starting THEN StartRestore(r0, now) ELSE r0
        LB == [L0 EXCEPT !.backupSeen = "completed"]
        C1 == IF starting THEN {"getBackup", "updStart"} ELSE {"getBackup"}
    IN
    IF StartWriteFails(starting, F)
    THEN Out(backups, restores, jobs, FALSE, [LB EXCEPT !.err = "error", !.writeErr = TRUE], C1)
    ELSE
      LET written == starting /\ "updStart" \notin F
          rs1 == IF written THEN Put(restores, k, r1) ELSE restores
          L1 == [LB EXCEPT !.wrote = written]
          C2 == C1 \cup {"getJob"}
      IN
      IF "getJob" \in F
      THEN Out(backups, rs1, jobs, FALSE,
               [L1 EXCEPT !.err = "error", !.jobSeen = "error"], C2)
      ELSE IF Visible("Job", jobs, jk)
      THEN
        LET seen == JobOutcome(jobs[jk])
            L2 == [L1 EXCEPT !.jobSeen = seen]
            r2 == IF seen = "succeeded" THEN CompleteRestore(r1, now)
                  ELSE FailRestore(r1, now)
        IN
        IF seen = "running"
        THEN Out(backups, rs1, jobs, FALSE,
                 [L2 EXCEPT !.requeueAfter = PollDelay], C2)
        ELSE IF "updEnd" \notin F
        THEN Out(backups, Put(rs1, k, r2), jobs, FALSE,
                 [L2 EXCEPT !.wrote = TRUE], C2 \cup {"updEnd"})
        ELSE Out(backups, rs1, jobs, FALSE,
                 [L2 EXCEPT !.err = "error", !.writeErr = TRUE], C2 \cup {"updEnd"})
      ELSE
        LET e == CreateError(Exists(jobs, jk), "create" \in F)
            L2 == [L1 EXCEPT !.jobSeen = "notfound", !.createErr = e]
            C3 == C2 \cup {"create"}
        IN
        IF e # "" /\ ~IsAlreadyExists(e)
        THEN Out(backups,
                 IF "updEnd" \notin F THEN Put(rs1, k, FailRestoreOnCreate(r1))
                                      ELSE rs1,
                 jobs, FALSE,
                 [L2 EXCEPT !.err = e,
                            !.wrote = (L1.wrote \/ "updEnd" \notin F),
                            !.writeErr = ("updEnd" \in F)],
                 C3 \cup {"updEnd"})
        ELSE IF e # ""
        THEN Out(backups, rs1, jobs, FALSE,
                 [L2 EXCEPT !.requeueAfter = PollDelay], C3)
        ELSE Out(backups, rs1, Put(jobs, jk, NewJob("Restore", k[2])), TRUE,
                 [L2 EXCEPT !.requeueAfter = PollDelay, !.createdJob = TRUE],
                 C3 \cup {"lag"})

RestoreCalls == {"getBackup", "updGate", "updStart", "getJob", "create", "updEnd", "lag"}

RestoreReconcile ==
  \E k \in RestoreKeys, F \in Failing(RestoreCalls) :
    \E out \in {RestoreStep(k, F)} :
      Apply("Restore", k, <<"Job", JobKey(k)>>, out, F) /\ UNCHANGED queue

\* ------------------------------------------------- Policy reconciler
\* A filter that counts the finished Backups of the policy only.
OwnedBackupsCompleted(k) ==
  {bk \in DOMAIN backups :
     /\ bk[1] = k[1]
     /\ Visible("Backup", backups, bk)
     /\ backups[bk].policyRef = k[2]
     /\ backups[bk].phase = PhaseCompleted}

\* The listed Backups of the namespace whose spec.policyRef names the policy.
OwnedBackups(k) ==
  {bk \in DOMAIN backups :
     /\ bk[1] = k[1]
     /\ Visible("Backup", backups, bk)
     /\ backups[bk].policyRef = k[2]}

\* A create that makes room first: it drops the policy's other Backups.
CreateBackupPruning(bs, bk, obj) ==
  Put([x \in {y \in DOMAIN bs : bs[y].policyRef # obj.policyRef} |-> bs[x]], bk, obj)

\* r.Create(ctx, backup)
CreateBackup(bs, bk, obj) == Put(bs, bk, obj)

PolicyReady(p) ==
  [p EXCEPT !.conditions = <<Condition("Ready", "True", "BackupCreated")>>]

\* BackupPolicyReconciler.Reconcile on the policy k; the calls in F fail:
\* "list" is r.List of the Backups, "create" r.Create of the Backup, "update"
\* r.Status().Update of the policy.
PolicyStep(k, F) ==
  LET p == policies[k]
      bk == <<k[1], BackupNameFor(k[2], now)>>
      L0 == [NoLast EXCEPT !.op = "policy", !.key = k, !.at = now]
      POut(ps, bs, made, l, called) ==
        [policies |-> ps, backups |-> bs, restores |-> restores, jobs |-> jobs,
         made |-> made, last |-> l, called |-> called]
  IN
  IF "list" \in F
  THEN POut(policies, backups, FALSE, [L0 EXCEPT !.err = "error"], {"list"})
  ELSE IF OwnedBackups(k) # {} THEN POut(policies, backups, FALSE, L0, {"list"})
  ELSE IF "create" \in F
  THEN POut(policies, backups, FALSE, [L0 EXCEPT !.err = "error"],
            {"list", "create"})
  ELSE IF Exists(backups, bk)
  THEN POut(policies, backups, FALSE,
            [L0 EXCEPT !.err = "AlreadyExists", !.backupSeen = "exists",
                       !.createErr = "AlreadyExists"],
            {"list", "create"})
  ELSE POut(IF "update" \notin F THEN Put(policies, k, PolicyReady(p)) ELSE policies,
            CreateBackup(backups, bk, NewBackup(k[2], p.target)), TRUE,
            [L0 EXCEPT !.createdBackup = TRUE, !.wrote = ("update" \notin F),
                       !.writeErr = ("update" \in F),
                       !.err = IF "update" \in F THEN "error" ELSE ""],
            {"list", "create", "update", "lag"})

PolicyCalls == {"list", "create", "update", "lag"}

PolicyReconcile ==
  \E k \in DOMAIN policies, F \in Failing(PolicyCalls) :
    \E out \in {PolicyStep(k, F)} :
      /\ Apply("BackupPolicy", k, <<"Backup", <<k[1], BackupNameFor(k[2], now)>>>>, out, F)
      /\ UNCHANGED queue

\* ------------------------------------------------------------ environment
Tick ==
  /\ now < MaxTime
  /\ now' = now + 1
  /\ last' = NoLast
  /\ UNCHANGED <<policies, backups, restores, jobs, unsynced, created, faults, queue>>

\* The informer cache catches up with the store.
CacheSync ==
  /\ unsynced # {}
  /\ unsynced' = {}
  /\ last' = NoLast
  /\ UNCHANGED <<now, policies, backups, restores, jobs, created, faults, queue>>

\* A pod of the Job terminates with success or with failure.
JobSucceeds ==
  \E jk \in DOMAIN jobs :
    /\ jobs[jk].succeeded = 0
    /\ jobs' = [jobs EXCEPT ![jk].succeeded = 1]
    /\ last' = NoLast
    /\ UNCHANGED <<now, policies, backups, restores, unsynced, created, faults, queue>>

JobFails ==
  \E jk \in DOMAIN jobs :
    /\ jobs[jk].failed = 0
    /\ jobs' = [jobs EXCEPT ![jk].failed = 1]
    /\ last' = NoLast
    /\ UNCHANGED <<now, policies, backups, restores, unsynced, created, faults, queue>>

\* A Job is removed (by a user, or by its TTL) while its owner lives on.
DeleteJob ==
  \E jk \in DOMAIN jobs :
    /\ faults < MaxFaults
    /\ faults' = faults + 1
    /\ jobs' = Remove(jobs, jk)
    /\ unsynced' = unsynced \ {<<"Job", jk>>}
    /\ last' = NoLast
    /\ UNCHANGED <<now, policies, backups, restores, created, queue>>

\* A Backup is removed by a user; its Job goes with it (owner reference).
DeleteBackup ==
  \E k \in DOMAIN backups :
    /\ faults < MaxFaults
    /\ faults' = faults + 1
    /\ backups' = Remove(backups, k)
    /\ LET gone == {jk \in DOMAIN jobs : /\ jk = JobKey(k)
                                         /\ jobs[jk].ownerKind = "Backup"}
       IN /\ jobs' = [jk \in DOMAIN jobs \ gone |-> jobs[jk]]
          /\ unsynced' = unsynced \ ({<<"Backup", k>>} \cup {<<"Job", jk>> : jk \in gone})
    /\ created' = [o \in DOMAIN created \ {<<"Backup", k>>} |-> created[o]]
    /\ last' = NoLast
    /\ UNCHANGED <<now, policies, restores, queue>>

\* A user asks for a restore of some Backup name.
CreateRestore ==
  \E k \in RestoreKeys, backupName \in BackupNames, targetNamespace \in {""} \cup NS :
    /\ ~Exists(restores, k)
    /\ restores' = Put(restores, k, NewRestore(backupName, targetNamespace))
    /\ last' = NoLast
    /\ UNCHANGED <<now, policies, backups, jobs, unsynced, created, faults, queue>>

Next ==
  \/ Tick
  \/ CacheSync
  \/ JobSucceeds
  \/ JobFails
  \/ DeleteJob
  \/ DeleteBackup
  \/ CreateRestore
  \/ PolicyReconcile
  \/ BackupReconcile
  \/ RestoreReconcile

Spec == Init /\ [][Next]_vars

\* The policy scheduler and the Backup executor on their own: no Restore.
NextBackup ==
  \/ Tick
  \/ CacheSync
  \/ JobSucceeds
  \/ JobFails
  \/ DeleteJob
  \/ DeleteBackup
  \/ PolicyReconcile
  \/ BackupReconcile

SpecBackup == Init /\ [][NextBackup]_vars

\* The three reconcilers within one second of the clock: every Backup the
\* policy makes has the one name, the Restores refer to it or to a name
\* that no Backup has.
NextRestore ==
  \/ CacheSync
  \/ JobSucceeds
  \/ JobFails
  \/ DeleteJob
  \/ DeleteBackup
  \/ CreateRestore
  \/ PolicyReconcile
  \/ BackupReconcile
  \/ RestoreReconcile

SpecRestore == Init /\ [][NextRestore]_vars

\* A client writes the phase value Pending, which the phase enum admits,
\* into the status of a Backup or Restore whose phase is unset.
MarkPending ==
  /\ \/ \E k \in DOMAIN backups :
          /\ backups[k].phase = ""
          /\ backups' = [backups EXCEPT ![k].phase = PhasePending]
          /\ UNCHANGED restores
     \/ \E k \in DOMAIN restores :
          /\ restores[k].phase = ""
          /\ restores' = [restores EXCEPT ![k].phase = PhasePending]
          /\ UNCHANGED backups
  /\ last' = NoLast
  /\ UNCHANGED <<now, policies, jobs, unsynced, created, faults, queue>>

\* The three reconcilers over objects whose phase may be the explicit
\* Pending, within one second of the clock.
NextPending ==
  \/ CacheSync
  \/ JobSucceeds
  \/ JobFails
  \/ CreateRestore
  \/ MarkPending
  \/ PolicyReconcile
  \/ BackupReconcile
  \/ RestoreReconcile

SpecPending == Init /\ [][NextPending]_vars

\* ------------------------------------------------------------- work queue
\* A Reconcile call of the reconciler op is due for the object k.
Item(op, k) == <<op, k>>

\* The framework runs the call again when it returns an error or a
\* RequeueAfter; a status write that went through comes back as the update
\* event of the object the controller is For.
Requeued(l) == l.err # "" \/ l.requeueAfter > 0 \/ l.wrote

QueueAfter(op, k, l, events) ==
  ((queue \ {Item(op, k)}) \cup events)
    \cup (IF Requeued(l) THEN {Item(op, k)} ELSE {})

\* The policy exists from the start: its creation event is in the queue.
InitQueued == InitStore /\ queue = {Item("policy", PolicyKey)}

\* For(&BackupPolicy{}): the created Backup is an event for the Backup
\* controller.
QueuedPolicyReconcile ==
  \E k \in DOMAIN policies, F \in Failing(PolicyCalls) :
    /\ Item("policy", k) \in queue
    /\ \E out \in {PolicyStep(k, F)} :
         /\ Apply("BackupPolicy", k, <<"Backup", <<k[1], BackupNameFor(k[2], now)>>>>,
                  out, F)
         /\ queue' = QueueAfter("policy", k, out.last,
                      IF out.made
                      THEN {Item("backup", <<k[1], BackupNameFor(k[2], now)>>)}
                      ELSE {})

\* For(&Backup{}).Owns(&batchv1.Job{})
QueuedBackupReconcileOf(k) ==
  \E F \in Failing(BackupCalls) :
    /\ Item("backup", k) \in queue
    /\ \E out \in {BackupStep(k, F)} :
         /\ Apply("Backup", k, <<"Job", JobKey(k)>>, out, F)
         /\ queue' = QueueAfter("backup", k, out.last, {})

QueuedBackupReconcile == \E k \in BackupKeys : QueuedBackupReconcileOf(k)

\* For(&Restore{}).Owns(&batchv1.Job{})
QueuedRestoreReconcileOf(k) ==
  \E F \in Failing(RestoreCalls) :
    /\ Item("restore", k) \in queue
    /\ \E out \in {RestoreStep(k, F)} :
         /\ Apply("Restore", k, <<"Job", JobKey(k)>>, out, F)
         /\ queue' = QueueAfter("restore", k, out.last, {})

QueuedRestoreReconcile == \E k \in RestoreKeys : QueuedRestoreReconcileOf(k)

JobKeys == {JobKey(k) : k \in BackupKeys \cup RestoreKeys}

\* The Job reports, once, a success or a failure; the event goes to the
\* controller that owns the Job.
JobReports(jk) ==
  /\ jk \in DOMAIN jobs
  /\ jobs[jk].succeeded = 0
  /\ jobs[jk].failed = 0
  /\ \/ jobs' = [jobs EXCEPT ![jk].succeeded = 1]
     \/ jobs' = [jobs EXCEPT ![jk].failed = 1]
  /\ queue' = queue \cup
       {Item(IF jobs[jk].ownerKind = "Backup" THEN "backup" ELSE "restore",
             <<jk[1], jobs[jk].owner>>)}
  /\ last' = NoLast
  /\ UNCHANGED <<now, policies, backups, restores, unsynced, created, faults>>

JobReport == \E jk \in JobKeys : JobReports(jk)

\* A user asks for a restore; the creation event is in the queue.
RestoreRequested ==
  \E k \in RestoreKeys, backupName \in BackupNames, targetNamespace \in {""} \cup NS :
    /\ ~Exists(restores, k)
    /\ restores' = Put(restores, k, NewRestore(backupName, targetNamespace))
    /\ queue' = queue \cup {Item("restore", k)}
    /\ last' = NoLast
    /\ UNCHANGED <<now, policies, backups, jobs, unsynced, created, faults>>

NextQueued ==
  \/ CacheSync
  \/ JobReport
  \/ RestoreRequested
  \/ QueuedPolicyReconcile
  \/ QueuedBackupReconcile
  \/ QueuedRestoreReconcile

\* Every due call is run, the cache catches up, every Job reports; the API
\* calls fail MaxFaults times at most.
FairQueue ==
  /\ WF_vars(QueuedPolicyReconcile)
  /\ \A k \in BackupKeys : WF_vars(QueuedBackupReconcileOf(k))
  /\ \A k \in RestoreKeys : WF_vars(QueuedRestoreReconcileOf(k))
  /\ \A jk \in JobKeys : WF_vars(JobReports(jk))
  /\ WF_vars(CacheSync)

SpecQueued == InitQueued /\ [][NextQueued]_vars /\ FairQueue

\* ----------------------------------------------------------------- claims
Terminal == {PhaseCompleted, PhaseFailed}

CountIn(c, owner) == IF owner \in DOMAIN c THEN c[owner] ELSE 0

\* The Backup a Restore refers to: its name, in the target namespace or,
\* when that is unset, in the Restore's own.
ReferencedBackup(k) ==
  <<IF restores[k].targetNamespace = "" THEN k[1] ELSE restores[k].targetNamespace,
    restores[k].backupName>>

\* The step is the Reconcile call op on the object k.
Reconciled(op, k) == last'.op = op /\ last'.key = k

\* One object's phase before and after a step, along unset -> Running ->
\* {Completed | Failed}; a call may write Running and the end one after the
\* other.
PhaseStep(a, b) ==
  \/ a = b
  \/ a = "" /\ b \in {PhaseRunning} \cup Terminal
  \/ a = PhaseRunning /\ b \in Terminal

\* C1: the phase of a Backup only moves along unset -> Running ->
\* {Completed | Failed}, whatever the jobs do and whichever API calls fail,
\* and a Backup in a terminal phase has a start time.
C1_BackupPhaseOrder ==
  /\ [][\A k \in DOMAIN backups \cap DOMAIN backups' :
          PhaseStep(backups[k].phase, backups'[k].phase)]_vars
  /\ [](\A k \in DOMAIN backups :
          backups[k].phase \in Terminal => backups[k].startTime # NilTime)

\* A Backup whose end has just been written, after a disturbance.
C1_Witness ==
  /\ last.op = "backup" /\ last.wrote /\ faults > 0
  /\ last.key \in DOMAIN backups
  /\ backups[last.key].phase \in Terminal
  /\ backups[last.key].startTime # NilTime

\* C2 as stated: a Restore in a terminal phase has a start time.
C2_TerminalRestoreHasStartTime ==
  \A k \in DOMAIN restores :
    restores[k].phase \in Terminal => restores[k].startTime # NilTime

Rejections ==
  {<<Condition("Ready", "False", "BackupNotFound")>>,
   <<Condition("Ready", "False", "BackupNotReady")>>}

\* C2, amended: the phase of a Restore only moves along unset -> Running ->
\* {Completed | Failed} or, when the validation of its Backup turns it away,
\* straight to Failed; a Restore in a terminal phase without a start time is
\* one the validation turned away.
C2_RestorePhaseOrder ==
  /\ [][\A k \in DOMAIN restores \cap DOMAIN restores' :
          PhaseStep(restores[k].phase, restores'[k].phase)]_vars
  /\ [](\A k \in DOMAIN restores :
          (restores[k].phase \in Terminal /\ restores[k].startTime = NilTime)
            => (restores[k].phase = PhaseFailed /\ restores[k].conditions \in Rejections))

\* A Restore whose job succeeded: Completed, with a start time.
C2_Witness ==
  \E k \in DOMAIN restores :
    /\ restores[k].phase = PhaseCompleted
    /\ restores[k].startTime # NilTime

\* C3: a Reconcile call on a Backup or a Restore in phase Completed or Failed
\* changes nothing in the store, makes no Job, returns no error and asks for
\* no requeue.
C3_TerminalNoOp ==
  [][\A op \in {"backup", "restore"} :
       LET store == IF op = "backup" THEN backups ELSE restores IN
       \A k \in DOMAIN store :
         (Reconciled(op, k) /\ store[k].phase \in Terminal)
           => /\ UNCHANGED <<policies, backups, restores, jobs, unsynced, created>>
              /\ last'.err = ""
              /\ last'.requeueAfter = 0
              /\ ~last'.wrote
              /\ ~last'.createdJob]_vars

\* A Reconcile call on a Failed Restore has returned, a terminal Backup is there.
C3_Witness ==
  /\ last.op = "restore"
  /\ last.prePhase = PhaseFailed
  /\ \E k \in DOMAIN backups : backups[k].phase \in Terminal

C5_NotReadyBackupFailsRestore ==
  /\ [][\A k \in DOMAIN restores :
          (/\ Reconciled("restore", k)
           /\ restores[k].phase = ""
           /\ ReferencedBackup(k) \in DOMAIN backups
           /\ backups[ReferencedBackup(k)].phase # PhaseCompleted)
          => /\ jobs' = jobs
             /\ created' = created
             /\ last'.wrote => restores'[k].phase = PhaseFailed]_vars
  /\ [](\A k \in DOMAIN restores :
          (restores[k].phase = PhaseFailed /\ restores[k].startTime = NilTime)
            => CountIn(created, <<"Restore", k>>) = 0)

\* A Pending Restore has been turned away for a Backup that is still Running.
C5_Witness ==
  /\ last.op = "restore" /\ last.prePhase = "" /\ last.backupSeen = "notready"
  /\ last.wrote
  /\ restores[last.key].phase = PhaseFailed
  /\ ReferencedBackup(last.key) \in DOMAIN backups
  /\ backups[ReferencedBackup(last.key)].phase = PhaseRunning
  /\ JobKey(last.key) \notin DOMAIN jobs

\* C6: a Reconcile call on a Restore that is not yet terminal and whose
\* Backup name does not exist makes no Job and, its status write accepted,
\* leaves the Restore Failed with the one condition Ready=False,
\* BackupNotFound.
C6_MissingBackupFailsRestore ==
  [][\A k \in DOMAIN restores :
       (/\ Reconciled("restore", k)
        /\ restores[k].phase \notin Terminal
        /\ ReferencedBackup(k) \notin DOMAIN backups)
       => /\ jobs' = jobs
          /\ created' = created
          /\ last'.wrote =>
               /\ restores'[k].phase = PhaseFailed
               /\ restores'[k].conditions =
                    <<Condition("Ready", "False", "BackupNotFound")>>]_vars

\* A Restore of a name no Backup has has been turned away.
C6_Witness ==
  /\ last.op = "restore" /\ last.backupSeen = "notfound" /\ last.wrote
  /\ ReferencedBackup(last.key) \notin DOMAIN backups
  /\ restores[last.key].phase = PhaseFailed
  /\ restores[last.key].conditions = <<Condition("Ready", "False", "BackupNotFound")>>
  /\ JobKey(last.key) \notin DOMAIN jobs

\* The schedule the policy claims speak of: a recurring-time expression is
\* valid or not, and a valid one has a next time after any time.
ValidCron(s) == s = ValidSchedule
CronPeriod(s) == IF s = ValidSchedule THEN 2 ELSE 1
CronNext(s, t) == ((t \div CronPeriod(s)) + 1) * CronPeriod(s)

\* nextDue: after the last trigger or, without one, the first time of the
\* schedule that is not before t.
NextDue(p, t) ==
  IF p.lastBackupTime # NilTime THEN CronNext(p.schedule, p.lastBackupTime[1])
  ELSE CronNext(p.schedule, t - 1)

\* The policy Reconcile call of this state ran with a valid schedule and
\* returned without error.
PolicyRan(valid) ==
  /\ last.op = "policy"
  /\ ValidCron(policies[last.key].schedule) = valid

\* C7: a policy Reconcile call with a valid schedule makes no Backup before
\* nextDue, and makes the Backup of the interval once nextDue is reached.
C7_BackupExactlyWhenDue ==
  (PolicyRan(TRUE) /\ last.err = "")
    => /\ last.at < NextDue(policies[last.key], last.at) => ~last.createdBackup
       /\ (/\ last.at >= NextDue(policies[last.key], last.at)
           /\ \A bk \in DOMAIN backups :
                bk = <<last.key[1], BackupNameFor(last.key[2], last.at)>>)
          => last.createdBackup

\* C8: a policy Reconcile call with a valid schedule leaves the next due
\* time in status.nextScheduledBackup and asks for a requeue after the time
\* that is left until then.
C8_NextDuePersistedAndRequeued ==
  (PolicyRan(TRUE) /\ last.err = "")
    => /\ policies[last.key].nextScheduledBackup # NilTime
       /\ last.requeueAfter > 0
       /\ last.createdBackup => policies[last.key].lastBackupTime = <<last.at>>

\* C9: a policy Reconcile call whose Backup name is taken returns no error
\* and writes the policy's status.
C9_TakenNameIsNoError ==
  (last.op = "policy" /\ last.backupSeen = "exists")
    => (last.err = "" /\ last.wrote)

\* C10: a policy Reconcile call with an invalid schedule makes no Backup,
\* asks for no requeue and leaves a failed condition on the policy.
C10_InvalidScheduleFailsClosed ==
  PolicyRan(FALSE)
    => /\ ~last.createdBackup
       /\ last.requeueAfter = 0
       /\ \E i \in DOMAIN policies[last.key].conditions :
            policies[last.key].conditions[i].status = "False"

\* The Backups that refer to the policy k, and the Completed ones of them.
BackupsOf(k) ==
  {bk \in DOMAIN backups : bk[1] = k[1] /\ backups[bk].policyRef = k[2]}

CompletedOf(k) == {bk \in BackupsOf(k) : backups[bk].phase = PhaseCompleted}

\* C11: retention is part of the policy's reconciliation: once a policy
\* Reconcile call has returned without error, at most keepLast Completed
\* Backups refer to the policy (the oldest beyond keepLast are deleted).
C11_RetentionKeepsLast ==
  (last.op = "policy" /\ last.err = "")
    => Cardinality(CompletedOf(last.key)) <= policies[last.key].keepLast

\* C12: no Reconcile call of any of the three reconcilers removes a Backup
\* whose phase is unset, Running or Failed, however many Backups the policy
\* has.
C12_UnfinishedBackupsAreKept ==
  [][last'.op # "none"
       => \A bk \in DOMAIN backups :
            backups[bk].phase # PhaseCompleted => bk \in DOMAIN backups']_vars

\* A policy Reconcile call has made a Backup while an unfinished Backup of
\* the policy was there, and the policy has more Backups than keepLast.
C12_Witness ==
  /\ last.op = "policy"
  /\ last.createdBackup
  /\ Cardinality(BackupsOf(last.key)) > policies[last.key].keepLast
  /\ \E bk \in BackupsOf(last.key) :
       /\ bk # <<last.key[1], BackupNameFor(last.key[2], last.at)>>
       /\ backups[bk].phase # PhaseCompleted

\* The object a Backup or Restore Reconcile call was about.
Owner(l) == IF l.op = "backup" THEN backups[l.key] ELSE restores[l.key]

\* C13: a Backup or Restore Reconcile call whose Job creation is answered
\* AlreadyExists returns no error, leaves the owner Running and asks for a
\* requeue after the poll delay.
C13_JobAlreadyExistsIsSwallowed ==
  (last.op \in {"backup", "restore"} /\ last.createErr = "AlreadyExists")
    => /\ last.err = ""
       /\ last.requeueAfter = PollDelay
       /\ Owner(last).phase = PhaseRunning

\* A Restore Reconcile call did not see its Job, tried to create it and was
\* answered AlreadyExists.
C13_Witness ==
  /\ last.op = "restore"
  /\ last.jobSeen = "notfound"
  /\ last.createErr = "AlreadyExists"
  /\ JobKey(last.key) \in DOMAIN jobs

\* C14: over its lifetime an owner has at most one Job created for it,
\* also when the Job is removed while the owner is Running; the Job is
\* named <owner-name>-job in the owner's namespace.
C14_AtMostOneJobPerOwner ==
  /\ \A o \in DOMAIN created : created[o] <= 1
  /\ \A jk \in DOMAIN jobs : jk = JobKey(<<jk[1], jobs[jk].owner>>)

JobReported == {"succeeded", "failed"}

\* C15: a Backup leaves Running for a terminal phase only in a Reconcile
\* call that saw its Job report a success or a failure (a call that starts
\* the Backup has made it Running before anything else).
C15_BackupEndsOnlyOnJobReport ==
  (/\ last.op = "backup"
   /\ last.prePhase \in {"", PhaseRunning}
   /\ backups[last.key].phase \in Terminal)
    => last.jobSeen \in JobReported

\* C16: a Running Restore changes phase only in a Reconcile call that saw
\* its Job report a success or a failure; the referenced Backup going away
\* or its read failing does not end it.
C16_RestoreEndsOnlyOnJobReport ==
  (/\ last.op = "restore"
   /\ last.prePhase = PhaseRunning
   /\ restores[last.key].phase # PhaseRunning)
    => last.jobSeen \in JobReported

\* The Reconcile call of this state was about a Backup or Restore that
\* exists.
OwnerReconciled == last.op \in {"backup", "restore"} /\ last.prePhase # "absent"

\* C17: a Backup or Restore Reconcile call that returns no error while the
\* stored phase of its object is unset or Running asks for a requeue after
\* the poll delay.
C17_UnfinishedIsRequeued ==
  (/\ OwnerReconciled
   /\ last.err = ""
   /\ Owner(last).phase \in {"", PhasePending, PhaseRunning})
    => last.requeueAfter = PollDelay

\* An API call of the Reconcile call failed for a passing reason: the read
\* of the Backup or of the Job with something other than NotFound, the
\* creation of the Job with something other than AlreadyExists, or a status
\* write.
TransientFailure(l) ==
  \/ l.backupSeen = "error"
  \/ l.jobSeen = "error"
  \/ l.createErr = "error"
  \/ l.writeErr

\* C18: a Backup or Restore Reconcile call that met a transient API failure
\* returns an error and does not leave its object Failed.
C18_TransientFailureIsReturned ==
  (OwnerReconciled /\ TransientFailure(last))
    => /\ last.err # ""
       /\ Owner(last).phase # PhaseFailed

\* C19: the Restore Reconcile call that marks the Restore Failed because its
\* Backup is absent or not Completed returns no error and asks for no
\* requeue.
C19_RejectionIsNotRetried ==
  (/\ last.op = "restore"
   /\ last.backupSeen \in {"notfound", "notready"}
   /\ last.wrote)
    => /\ last.err = ""
       /\ last.requeueAfter = 0

\* The one condition an object in the phase carries: Progressing while
\* Running, Ready once terminal.
OneCondition(obj) ==
  /\ Len(obj.conditions) = 1
  /\ obj.conditions[1].type =
       (IF obj.phase = PhaseRunning THEN "Progressing" ELSE "Ready")

\* C20: every Backup and every Restore whose phase is set carries exactly
\* one condition, of type Progressing while Running and Ready once
\* terminal.
C20_OneConditionPerPhase ==
  /\ \A k \in DOMAIN backups : backups[k].phase # "" => OneCondition(backups[k])
  /\ \A k \in DOMAIN restores : restores[k].phase # "" => OneCondition(restores[k])

\* The Reconcile call of this state found the Job with the given report and
\* came back without error, that is, with its status write done.
EndedOn(report) == OwnerReconciled /\ last.jobSeen = report /\ last.err = ""

\* C21: a Reconcile call that finds the Job with a success leaves its
\* object Completed with the completion time, the artifact location (Backup)
\* or the restored size (Restore) and the one condition Ready=True, and asks
\* for no requeue.
C21_SuccessCompletes ==
  EndedOn("succeeded")
    => /\ Owner(last).phase = PhaseCompleted
       /\ Owner(last).completionTime = <<last.at>>
       /\ last.op = "backup" => Owner(last).backupLocation # ""
       /\ last.op = "restore" => Owner(last).restoredDataSize # ""
       /\ Len(Owner(last).conditions) = 1
       /\ Owner(last).conditions[1].type = "Ready"
       /\ Owner(last).conditions[1].status = "True"
       /\ last.requeueAfter = 0

\* C22: a Reconcile call that finds the Job with a failure and no success
\* leaves its object Failed with the completion time and the one condition
\* Ready=False, and asks for no requeue; no later Reconcile call makes
\* another Job for the object.
C22_FailureFails ==
  /\ [](EndedOn("failed")
          => /\ Owner(last).phase = PhaseFailed
             /\ Owner(last).completionTime = <<last.at>>
             /\ Len(Owner(last).conditions) = 1
             /\ Owner(last).conditions[1].type = "Ready"
             /\ Owner(last).conditions[1].status = "False"
             /\ last.requeueAfter = 0)
  /\ [][\A k \in DOMAIN backups :
          (backups[k].phase = PhaseFailed /\ Reconciled("backup", k))
            => ~last'.createdJob]_vars
  /\ [][\A k \in DOMAIN restores :
          (restores[k].phase = PhaseFailed /\ Reconciled("restore", k))
            => ~last'.createdJob]_vars

\* The spec of a Backup (with its owner reference) and of a Restore.
BackupSpecOf(b) == <<b.policyRef, b.target, b.owner>>
RestoreSpecOf(r) == <<r.backupName, r.targetPVC, r.targetNamespace>>

\* C24: a Backup or Restore Reconcile call writes nothing but the status of
\* its own object: no Backup or Restore appears or disappears, no spec
\* changes, every other Backup and Restore and the policy stay as they are,
\* and a Restore call leaves all Backups as they are.
C24_OnlyOwnStatusIsWritten ==
  [][last'.op \in {"backup", "restore"}
       => /\ DOMAIN backups' = DOMAIN backups
          /\ DOMAIN restores' = DOMAIN restores
          /\ policies' = policies
          /\ \A k \in DOMAIN backups :
               /\ BackupSpecOf(backups'[k]) = BackupSpecOf(backups[k])
               /\ ~Reconciled("backup", k) => backups'[k] = backups[k]
          /\ \A k \in DOMAIN restores :
               /\ RestoreSpecOf(restores'[k]) = RestoreSpecOf(restores[k])
               /\ ~Reconciled("restore", k) => restores'[k] = restores[k]]_vars

\* A Restore Reconcile call has read its Completed Backup and written the
\* Restore's end, and a Backup Reconcile call wrote that Backup's end before.
C24_Witness ==
  /\ last.op = "restore"
  /\ last.backupSeen = "completed"
  /\ last.jobSeen = "succeeded"
  /\ last.wrote
  /\ restores[last.key].phase = PhaseCompleted

\* The owner of a Job, when it is there.
JobOwner(jk) ==
  LET ok == <<jk[1], jobs[jk].owner>> IN
  IF jobs[jk].ownerKind = "Backup"
  THEN IF ok \in DOMAIN backups THEN <<backups[ok]>> ELSE <<>>
  ELSE IF ok \in DOMAIN restores THEN <<restores[ok]>> ELSE <<>>

\* The Reconcile call of this state met an object with unset phase and its
\* write of Running and the start time failed.
StartWriteFailed ==
  /\ OwnerReconciled
  /\ last.prePhase = ""
  /\ last.backupSeen \in {"", "completed"}
  /\ last.writeErr
  /\ Owner(last).phase = ""

\* C26: Running and the start time are stored before the Job is looked up
\* or created: a call whose write of the start fails returns the error and
\* makes no Job, and no Job exists whose owner is stored without a start
\* time.
C26_StartIsStoredBeforeJob ==
  /\ StartWriteFailed => (last.err # "" /\ ~last.createdJob /\ last.jobSeen = "")
  /\ \A jk \in DOMAIN jobs :
       \A i \in DOMAIN JobOwner(jk) : JobOwner(jk)[i].startTime # NilTime

\* A call's write of the start has failed, and the Restore has no Job.
C26_Witness ==
  /\ StartWriteFailed
  /\ last.op = "restore"
  /\ JobKey(last.key) \notin DOMAIN jobs

\* C27: every Backup lives in its policy's namespace with spec.policyRef the
\* policy's name, spec.target the policy's spec.target and an owner
\* reference to the policy; a policy Reconcile call that makes a Backup adds
\* just that one; no step changes the spec of a Backup.
C27_BackupSpecIsCopiedAndKept ==
  /\ [](\A bk \in DOMAIN backups :
          \E pk \in DOMAIN policies :
            /\ bk[1] = pk[1]
            /\ BackupSpecOf(backups[bk]) = <<pk[2], policies[pk].target, pk[2]>>)
  /\ [][last'.createdBackup
          => DOMAIN backups' \ DOMAIN backups =
               {<<last'.key[1], BackupNameFor(last'.key[2], now)>>}]_vars
  /\ [][\A bk \in DOMAIN backups \cap DOMAIN backups' :
          BackupSpecOf(backups'[bk]) = BackupSpecOf(backups[bk])]_vars

\* A Backup that the policy made has run to Completed.
C27_Witness ==
  /\ last.op = "backup"
  /\ last.jobSeen = "succeeded"
  /\ backups[last.key].phase = PhaseCompleted
  /\ backups[last.key].policyRef = PolicyKey[2]

\* C28: a Backup or Restore with the explicit phase Pending is handled like
\* one with unset phase: the Reconcile call that meets it and returns
\* without error has stored a start time and moved it on from Pending, no
\* Job exists for an owner without a start time, and no Backup is terminal
\* and no Restore Completed without a start time.
C28_ExplicitPendingIsStarted ==
  /\ (OwnerReconciled /\ last.prePhase = PhasePending /\ last.err = "")
       => (Owner(last).phase # PhasePending /\ Owner(last).startTime # NilTime)
  /\ \A jk \in DOMAIN jobs :
       \A i \in DOMAIN JobOwner(jk) :
         JobOwner(jk)[i].phase = PhasePending => JobOwner(jk)[i].startTime # NilTime
  /\ \A k \in DOMAIN backups :
       backups[k].phase \in Terminal => backups[k].startTime # NilTime
  /\ \A k \in DOMAIN restores :
       restores[k].phase = PhaseCompleted => restores[k].startTime # NilTime

\* The Backups of the policy k that a list through the cache shows.
ListedBackupsOf(k) == {bk \in BackupsOf(k) : <<"Backup", bk>> \notin unsynced}

\* C29 as stated: while no Backup is deleted a policy has at most one
\* Backup.
C29_AtMostOneBackupPerPolicy ==
  \A pk \in DOMAIN policies : Cardinality(BackupsOf(pk)) <= 1

\* C29: a policy Reconcile call makes a Backup only when the list shows no
\* Backup of the policy; when the list shows one, in whatever phase, the
\* call makes nothing, writes nothing and asks for no requeue.  A second
\* Backup of the policy is made only by a call whose list does not show the
\* first.
C29_BackupOnlyWhenNoneListed ==
  [][\A pk \in DOMAIN policies :
       Reconciled("policy", pk)
         => /\ last'.createdBackup => ListedBackupsOf(pk) = {}
            /\ (last'.createdBackup /\ BackupsOf(pk) # {})
                 => \A bk \in BackupsOf(pk) : <<"Backup", bk>> \in unsynced
            /\ (ListedBackupsOf(pk) # {} /\ last'.err = "")
                 => /\ ~last'.createdBackup
                    /\ ~last'.wrote
                    /\ last'.requeueAfter = 0
                    /\ backups' = backups
                    /\ policies' = policies]_vars

\* A policy Reconcile call has found an unfinished Backup of the policy in
\* the list at a later second than that Backup's, and made nothing.
C29_Witness ==
  /\ last.op = "policy"
  /\ last.err = ""
  /\ ~last.createdBackup
  /\ \E bk \in ListedBackupsOf(last.key) :
       /\ backups[bk].phase = PhaseRunning
       /\ bk # <<last.key[1], BackupNameFor(last.key[2], last.at)>>

\* What a Reconcile call that came back without error leaves behind when it
\* ran without interruption: a policy with a listed Backup carries the
\* condition of the creation; an unfinished Backup or Restore is Running
\* with a start time and has its Job.
SettledAsOneRun ==
  /\ (last.op = "policy" /\ last.err = "" /\ ListedBackupsOf(last.key) # {})
       => policies[last.key].conditions = <<Condition("Ready", "True", "BackupCreated")>>
  /\ (OwnerReconciled /\ last.err = "" /\ Owner(last).phase \notin Terminal)
       => /\ Owner(last).phase = PhaseRunning
          /\ Owner(last).startTime # NilTime
          /\ JobKey(last.key) \in DOMAIN jobs

\* A Reconcile call that follows a call on the same object which came back
\* without error, with nothing happening in between and no API call of
\* either failing, changes nothing in the store.
RedundantRunChangesNothing ==
  (/\ last.op \in {"policy", "backup", "restore"}
   /\ last.err = ""
   /\ ~TransientFailure(last)
   /\ last'.op = last.op
   /\ last'.key = last.key
   /\ ~TransientFailure(last'))
    => /\ policies' = policies
       /\ backups' = backups
       /\ restores' = restores
       /\ jobs' = jobs

\* C25: running Reconcile again, after a failed status write or as a
\* redundant wake-up, ends in the store state of one uninterrupted run and
\* applies no effect twice.
C25_RerunConverges ==
  /\ []SettledAsOneRun
  /\ [][RedundantRunChangesNothing]_vars

\* C23: with every due call run, the API calls failing only finitely often
\* and every Job reporting, every Backup and every Restore ends up in
\* Completed or Failed for good.
C23_EveryObjectEnds ==
  /\ \A k \in BackupKeys :
       [](k \in DOMAIN backups
            => <>[](k \in DOMAIN backups /\ backups[k].phase \in Terminal))
  /\ \A k \in RestoreKeys :
       [](k \in DOMAIN restores
            => <>[](k \in DOMAIN restores /\ restores[k].phase \in Terminal))

\* C30: once a policy Reconcile call has made a Backup, the policy's status
\* comes to carry the condition Ready=True with reason BackupCreated.
C30_CreatedLeadsToReady ==
  (last.op = "policy" /\ last.key = PolicyKey /\ last.createdBackup)
    ~> (policies[PolicyKey].conditions
          = <<Condition("Ready", "True", "BackupCreated")>>)

\* A time stamp that is stored stays as it is.
Kept(before, after) == before # <<>> => after = before

\* C31: a start time stored on a Backup or a Restore is never changed by a
\* later step, nor is a stored completion time: each of the two is stored
\* once per object at most.
C31_TimestampsAreStoredOnce ==
  [][/\ \A k \in DOMAIN backups \cap DOMAIN backups' :
         /\ Kept(backups[k].startTime, backups'[k].startTime)
         /\ Kept(backups[k].completionTime, backups'[k].completionTime)
     /\ \A k \in DOMAIN restores \cap DOMAIN restores' :
         /\ Kept(restores[k].startTime, restores'[k].startTime)
         /\ Kept(restores[k].completionTime, restores'[k].completionTime)]_vars

\* A Reconcile call has ended, after the clock moved, an object it found
\* Running with a start time stored earlier.
C31_Witness ==
  /\ last.op \in {"backup", "restore"}
  /\ last.prePhase = PhaseRunning
  /\ last.wrote
  /\ last.at = 1
  /\ LET obj == IF last.op = "backup" THEN backups[last.key] ELSE restores[last.key]
     IN /\ obj.startTime = <<0>>
        /\ obj.completionTime = <<1>>

\* The Job of the owner k reports a success and a failure at once.
ReportsBoth(k) ==
  /\ Exists(jobs, JobKey(k))
  /\ jobs[JobKey(k)].succeeded > 0
  /\ jobs[JobKey(k)].failed > 0

\* A Reconcile call of the Running object k that finds its Job, the Job
\* reporting both, takes the success: it never makes the object Failed, and
\* makes it Completed unless its status write fails.
SuccessWins(op, k, before, after) ==
  (/\ before.phase = PhaseRunning
   /\ ReportsBoth(k)
   /\ last'.op = op
   /\ last'.key = k
   /\ last'.jobSeen \in JobReported)
    => /\ last'.jobSeen = "succeeded"
       /\ after.phase # PhaseFailed
       /\ last'.err = "" => after.phase = PhaseCompleted

SuccessWinsForBackups ==
  \A k \in DOMAIN backups \cap DOMAIN backups' :
    SuccessWins("backup", k, backups[k], backups'[k])

SuccessWinsForRestores ==
  \A k \in DOMAIN restores \cap DOMAIN restores' :
    SuccessWins("restore", k, restores[k], restores'[k])

\* C32: when the Job of a Running Backup or Restore reports a success and a
\* failure at once, the success wins: the Reconcile call that reads the
\* report makes the owner Completed, never Failed.
C32_SuccessTakesPrecedence ==
  [][SuccessWinsForBackups /\ SuccessWinsForRestores]_vars

\* A Reconcile call has completed a Running Restore whose Job reports both.
C32_Witness ==
  /\ last.op = "restore"
  /\ last.prePhase = PhaseRunning
  /\ last.jobSeen = "succeeded"
  /\ last.wrote
  /\ Exists(restores, last.key)
  /\ ReportsBoth(last.key)
  /\ restores[last.key].phase = PhaseCompleted
====
